---- MODULE Spec2Model ----
(***************************************************************************)
(* Model of create_payment_schedule (src/cc_paydown_planner.py), the debt  *)
(* snowball schedule engine, and of the CreditCard record it consumes.     *)
(*                                                                         *)
(* Money and rates are exact rationals <<n, d>> in lowest terms (d > 0):   *)
(* the engine rounds nowhere, so every statement below is about the exact  *)
(* arithmetic of the code, without the rounding of binary floating point.  *)
(*                                                                         *)
(* The list `schedule` of the code grows by one month_data per period and  *)
(* is only read at the end (its length and the sum of total_paid).  The    *)
(* model keeps the month_data appended last (month_data), the length       *)
(* (schedule_len) and the running sum of total_paid (schedule_paid); a     *)
(* statement about "every period" is a statement about month_data in every *)
(* state, and one about consecutive periods is a statement about a step.   *)
(***************************************************************************)
EXTENDS Integers, Sequences, FiniteSets, TLC

\* ---------------------------------------------------------------- bounds
MaxCards == 2
MaxBalance == 3
MaxMinimum == 2
MaxBudget == 4

\* the period cap of the safety check
MaxMonths == 1000

Names == {"A", "B"}
BalanceValues == 0..MaxBalance
MinimumValues == 0..MaxMinimum
AprValues == {0, 600}
BudgetValues == -1..MaxBudget

\* ------------------------------------------------------------- rationals
RECURSIVE Gcd(_, _)
Gcd(a, b) == IF b = 0 THEN a ELSE Gcd(b, a % b)

Abs(a) == IF a < 0 THEN -a ELSE a

Norm(n, d) ==
    LET g == Gcd(Abs(n), Abs(d))
        s == IF d < 0 THEN -1 ELSE 1
    IN  <<(s * n) \div g, (s * d) \div g>>

R(n) == <<n, 1>>
Zero == R(0)
RAdd(x, y) == Norm(x[1] * y[2] + y[1] * x[2], x[2] * y[2])
RSub(x, y) == Norm(x[1] * y[2] - y[1] * x[2], x[2] * y[2])
RMul(x, y) == Norm(x[1] * y[1], x[2] * y[2])
RDivInt(x, k) == Norm(x[1], x[2] * k)
RLt(x, y) == x[1] * y[2] < y[1] * x[2]
RLe(x, y) == x[1] * y[2] <= y[1] * x[2]
RGt(x, y) == RLt(y, x)
RGe(x, y) == RLe(y, x)
\* Python's max(a, b) and min(a, b): the first argument wins a tie
RMax(x, y) == IF RGt(y, x) THEN y ELSE x
RMin(x, y) == IF RLt(y, x) THEN y ELSE x

RECURSIVE RSum(_)
RSum(s) == IF s = << >> THEN Zero ELSE RAdd(s[1], RSum(Tail(s)))

\* ------------------------------------------------------------ CreditCard
CreditCard(name, balance, minimum_payment, apr) ==
    [name |-> name,
     balance |-> R(balance),
     minimum_payment |-> R(minimum_payment),
     apr |-> R(apr),
     monthly_interest_rate |-> RDivInt(RDivInt(R(apr), 100), 12)]

\* a variant that charges a year of interest every month
calculate_interest_Annual(balance, monthly_rate) ==
    RMul(balance, RMul(monthly_rate, R(12)))

calculate_interest(balance, monthly_rate) == RMul(balance, monthly_rate)

CardValues ==
    {CreditCard(n, b, m, a) :
        n \in Names, b \in BalanceValues, m \in MinimumValues, a \in AprValues}

\* balances around the period cap, for the runs that end at the cap
LongBalances == {MaxMonths - 1, MaxMonths, MaxMonths + 1}

LongCardLists ==
    {<<CreditCard("A", b, m, a)>> :
        b \in LongBalances, m \in MinimumValues, a \in AprValues}

\* names are only ever compared for equality, so the first card is named "A"
CardLists ==
    {cs \in UNION {[1..k -> CardValues] : k \in 0..MaxCards} :
        cs = << >> \/ cs[1].name = "A"}

\* ----------------------------------------------------------------- state
VARIABLES
    cards,                 \* the caller's list of CreditCard objects
    total_monthly_payment, \* the caller's budget
    pc,                    \* "call", "loop" or "done"
    total_minimums,
    extra_payment,
    remaining_cards,       \* the working dicts, each with the position idx
                           \* of the CreditCard it was built from
    month,
    month_data,            \* the month_data appended last
    schedule_len,          \* len(schedule)
    schedule_paid,         \* sum of total_paid over schedule
    total_interest_paid,
    period_start,          \* history: remaining_cards as it was when the
                           \* period of month_data began
    result,                \* the returned dict, NoResult before the return
    calls,                 \* how many calls the caller has made
    first_result,          \* history: what the first call returned
    due_date,              \* the argument of parse_due_date
    day,                   \* what parse_due_date did with it
    source,                \* where records come from: a JSON file, a CSV
                           \* file or the prompts of main
    card_num,              \* how many records have been consumed
    card_data,             \* the record consumed last
    read_cards,            \* the list of accepted records, `cards` of the reader
    valid_records,         \* history: the consumed records that are valid
    read_result,           \* how the reader ended, pending while it reads
    entry                  \* interactive loop: the prompt it is at and the
                           \* answers of the card being entered

vars == <<cards, total_monthly_payment, pc, total_minimums, extra_payment,
          remaining_cards, month, month_data, schedule_len, schedule_paid,
          total_interest_paid, period_start, result, calls, first_result,
          due_date, day, source, card_num, card_data, read_cards,
          valid_records, read_result, entry>>

\* what the engine leaves alone
caller == <<calls, first_result>>

\* the state of parse_due_date and of the three ways of ingesting records
calendar == <<due_date, day>>

reader == <<source, card_num, card_data, read_cards, valid_records,
            read_result, entry>>

outside == <<calendar, reader>>

Pending == [t |-> "pending", n |-> 0]

\* a float: a number or NaN
Num(k) == [t |-> "num", n |-> k]

NaN == [t |-> "nan", n |-> 0]

\* a value of a field of a record of the file
Field(t, k) == [t |-> t, n |-> k]

Absent == Field("absent", 0)

NameField(t, str) == [t |-> t, s |-> str]

NoSource == [kind |-> "none", data |-> "none", default_apr |-> Absent]

NoRecord ==
    [shape |-> "none", card_name |-> NameField("absent", << >>),
     current_balance |-> Absent, minimum_payment |-> Absent,
     apr |-> Absent, credit_limit |-> Absent]

NoEntry == [at |-> "none", credit_limit |-> Num(0), balance |-> Num(0)]

NotRead == [t |-> "pending", msg |-> ""]

CalendarIdle ==
    /\ due_date = << >>
    /\ day = Pending

ReaderIdle ==
    /\ source = NoSource
    /\ card_num = 0
    /\ card_data = NoRecord
    /\ read_cards = << >>
    /\ valid_records = << >>
    /\ read_result = NotRead
    /\ entry = NoEntry

\* before the first period there is no month_data, before the return no result
NoMonth ==
    [month |-> 0, payments |-> << >>, balances_after |-> << >>,
     total_paid |-> Zero, interest_paid |-> Zero]
NoResult == [pending |-> TRUE]

Init ==
    /\ cards \in CardLists
    /\ total_monthly_payment \in {R(b) : b \in BudgetValues}
    /\ pc = "call"
    /\ total_minimums = Zero
    /\ extra_payment = Zero
    /\ remaining_cards = << >>
    /\ month = 1
    /\ month_data = NoMonth
    /\ schedule_len = 0
    /\ schedule_paid = Zero
    /\ total_interest_paid = Zero
    /\ period_start = << >>
    /\ result = NoResult
    /\ calls = 1
    /\ first_result = NoResult
    /\ CalendarIdle
    /\ ReaderIdle

\* one account with a balance near the period cap
InitLong ==
    /\ cards \in LongCardLists
    /\ total_monthly_payment \in {R(b) : b \in BudgetValues}
    /\ pc = "call"
    /\ total_minimums = Zero
    /\ extra_payment = Zero
    /\ remaining_cards = << >>
    /\ month = 1
    /\ month_data = NoMonth
    /\ schedule_len = 0
    /\ schedule_paid = Zero
    /\ total_interest_paid = Zero
    /\ period_start = << >>
    /\ result = NoResult
    /\ calls = 1
    /\ first_result = NoResult
    /\ CalendarIdle
    /\ ReaderIdle

\* ------------------------------------------------- filter, sort, minimums
Positions(cs) == [i \in 1..Len(cs) |-> i]

\* a variant that keeps the cards with balance 0
cards_with_balance_NonNegative(cs) ==
    SelectSeq(Positions(cs), LAMBDA i : RGe(cs[i].balance, Zero))

\* the CreditCard objects are referred to by their position in cards
cards_with_balance(cs) ==
    SelectSeq(Positions(cs), LAMBDA i : RGt(cs[i].balance, Zero))

\* one step of a stable ascending sort: x goes behind every element whose
\* balance is not larger than its own
RECURSIVE InsertByBalance(_, _, _)
InsertByBalance(cs, sorted, x) ==
    IF sorted = << >> THEN <<x>>
    ELSE IF RLt(cs[x].balance, cs[sorted[Len(sorted)]].balance)
         THEN Append(InsertByBalance(cs, SubSeq(sorted, 1, Len(sorted) - 1), x),
                     sorted[Len(sorted)])
         ELSE Append(sorted, x)

RECURSIVE SortedByBalance(_, _)
SortedByBalance(cs, s) ==
    IF s = << >> THEN << >>
    ELSE InsertByBalance(cs, SortedByBalance(cs, SubSeq(s, 1, Len(s) - 1)),
                         s[Len(s)])

cards_sorted(cs) == SortedByBalance(cs, cards_with_balance(cs))

\* a variant that sums the minimums of all the cards of the input
TotalMinimums_AllCards(cs) ==
    RSum([k \in 1..Len(cs) |-> cs[k].minimum_payment])

TotalMinimums(cs) ==
    RSum([k \in 1..Len(cards_sorted(cs)) |->
            cs[cards_sorted(cs)[k]].minimum_payment])

\* a variant that also refuses a budget equal to the minimums
BudgetTooSmall_OrEqual(budget, minimums) == RLe(budget, minimums)

BudgetTooSmall(budget, minimums) == RLt(budget, minimums)

\* a variant that forgets to take the minimums off the budget
ExtraPayment_WholeBudget(budget, minimums) == budget

ExtraPayment(budget, minimums) == RSub(budget, minimums)

WorkingCard(cs, i) ==
    [name |-> cs[i].name,
     balance |-> cs[i].balance,
     minimum |-> cs[i].minimum_payment,
     apr |-> cs[i].apr,
     monthly_rate |-> cs[i].monthly_interest_rate,
     idx |-> i]

InitialRemaining(cs) ==
    [k \in 1..Len(cards_sorted(cs)) |-> WorkingCard(cs, cards_sorted(cs)[k])]

\* a variant in which the working dicts are the CreditCard objects
InputAfterCall_Aliased(cs, working) ==
    [i \in 1..Len(cs) |->
        IF \E k \in 1..Len(working) : working[k].idx = i
        THEN [cs[i] EXCEPT !.balance =
                working[CHOOSE k \in 1..Len(working) : working[k].idx = i].balance]
        ELSE cs[i]]

\* The engine only reads the CreditCard objects and the list that holds
\* them: sorted() and the comprehensions build new lists, and every store of
\* a balance goes to a working dict.
InputAfterCall(cs, working) == cs

\* ------------------------------------------------------------ one period
\* a variant without the floor of the principal at 0
MinimumPayment_NoClamp(card) ==
    LET interest_charge == calculate_interest(card.balance, card.monthly_rate)
        principal == RSub(card.minimum, interest_charge)
        new_balance == RMax(Zero, RSub(card.balance, principal))
    IN  [line |-> [card |-> card.name,
                   payment |-> card.minimum,
                   interest |-> interest_charge,
                   principal |-> principal,
                   balance_before |-> card.balance,
                   balance_after |-> new_balance],
         card |-> [card EXCEPT !.balance = new_balance]]

\* a variant that takes the whole minimum off the balance, interest or not
MinimumPayment_InterestFree(card) ==
    LET interest_charge == calculate_interest(card.balance, card.monthly_rate)
        uncovered == RLt(RSub(card.minimum, interest_charge), Zero)
        payment == IF uncovered THEN interest_charge ELSE card.minimum
        principal == card.minimum
        new_balance == RMax(Zero, RSub(card.balance, principal))
    IN  [line |-> [card |-> card.name,
                   payment |-> payment,
                   interest |-> interest_charge,
                   principal |-> principal,
                   balance_before |-> card.balance,
                   balance_after |-> new_balance],
         card |-> [card EXCEPT !.balance = new_balance]]

\* a variant that leaves the payment at the minimum when interest exceeds it
MinimumPayment_PayMinimumOnly(card) ==
    LET interest_charge == calculate_interest(card.balance, card.monthly_rate)
        uncovered == RLt(RSub(card.minimum, interest_charge), Zero)
        principal == IF uncovered THEN Zero
                     ELSE RSub(card.minimum, interest_charge)
        new_balance == RMax(Zero, RSub(card.balance, principal))
    IN  [line |-> [card |-> card.name,
                   payment |-> card.minimum,
                   interest |-> interest_charge,
                   principal |-> principal,
                   balance_before |-> card.balance,
                   balance_after |-> new_balance],
         card |-> [card EXCEPT !.balance = new_balance]]

\* the minimum payment of one card: its payment line and its new balance
MinimumPayment(card) ==
    LET interest_charge == calculate_interest(card.balance, card.monthly_rate)
        uncovered == RLt(RSub(card.minimum, interest_charge), Zero)
        payment == IF uncovered THEN interest_charge ELSE card.minimum
        principal == IF uncovered THEN Zero
                     ELSE RSub(card.minimum, interest_charge)
        new_balance == RMax(Zero, RSub(card.balance, principal))
    IN  [line |-> [card |-> card.name,
                   payment |-> payment,
                   interest |-> interest_charge,
                   principal |-> principal,
                   balance_before |-> card.balance,
                   balance_after |-> new_balance],
         card |-> [card EXCEPT !.balance = new_balance]]

MinimumPayments(rc) == [k \in 1..Len(rc) |-> MinimumPayment(rc[k])]

\* a variant that aims the extra payment at the last card of the list
TargetPosition_Last(rc) == Len(rc)

\* a variant that aims the extra payment at the first card that still owes
TargetPosition_FirstOwing(rc) ==
    IF \E k \in 1..Len(rc) : RGt(rc[k].balance, Zero)
    THEN CHOOSE k \in 1..Len(rc) :
            /\ RGt(rc[k].balance, Zero)
            /\ \A j \in 1..(k - 1) : ~RGt(rc[j].balance, Zero)
    ELSE 1

\* position of the card that receives the extra payment
TargetPosition(rc) == 1

ExtraDue(extra, rc) ==
    /\ RGt(extra, Zero)
    /\ rc # << >>
    /\ RGt(rc[TargetPosition(rc)].balance, Zero)

\* a variant that pays the whole extra budget whatever the target still owes
ExtraApplied_WholeExtra(extra, rc) ==
    IF ExtraDue(extra, rc) THEN extra ELSE Zero

\* a variant that gives every card of the list an equal share of the extra
ExtraApplied_SplitEvenly(extra, rc) ==
    IF ExtraDue(extra, rc)
    THEN RMin(RDivInt(extra, Len(rc)), rc[TargetPosition(rc)].balance)
    ELSE Zero

ExtraApplied(extra, rc) ==
    IF ExtraDue(extra, rc)
    THEN RMin(extra, rc[TargetPosition(rc)].balance)
    ELSE Zero

\* the payment record the extra is booked on: the first one with the
\* target's name (0 when there is none)
RECURSIVE FirstWithName(_, _, _)
FirstWithName(lines, name, k) ==
    IF k > Len(lines) THEN 0
    ELSE IF lines[k].card = name THEN k
    ELSE FirstWithName(lines, name, k + 1)

\* a variant that adds the interest of the period to every carried balance
CardsAfterPeriod_InterestAdded(extra, rc) ==
    LET after == [k \in 1..Len(rc) |-> MinimumPayments(rc)[k].card]
        applied == ExtraApplied(extra, after)
        paid == IF ExtraDue(extra, after)
                THEN [after EXCEPT
                        ![TargetPosition(after)].balance = RSub(@, applied)]
                ELSE after
    IN  [k \in 1..Len(rc) |->
            [paid[k] EXCEPT !.balance =
                RAdd(@, calculate_interest(@, paid[k].monthly_rate))]]

\* the working dicts after the minimum payments and the extra payment
CardsAfterPeriod(extra, rc) ==
    LET after == [k \in 1..Len(rc) |-> MinimumPayments(rc)[k].card]
        applied == ExtraApplied(extra, after)
    IN  IF ExtraDue(extra, after)
        THEN [after EXCEPT ![TargetPosition(after)].balance = RSub(@, applied)]
        ELSE after

\* a variant that adds the extra to the payment of the record only
PaymentsOfPeriod_PaymentOnly(extra, rc) ==
    LET lines == [k \in 1..Len(rc) |-> MinimumPayments(rc)[k].line]
        after == [k \in 1..Len(rc) |-> MinimumPayments(rc)[k].card]
        applied == ExtraApplied(extra, after)
        rec == IF ExtraDue(extra, after)
               THEN FirstWithName(lines, after[TargetPosition(after)].name, 1)
               ELSE 0
    IN  [k \in 1..Len(rc) |->
            IF k = rec
            THEN [lines[k] EXCEPT
                    !.payment = RAdd(@, applied),
                    !.balance_after =
                        CardsAfterPeriod(extra, rc)[TargetPosition(after)].balance]
            ELSE lines[k]]

\* a variant that books the extra on the last record with the target's name
PaymentsOfPeriod_LastWithName(extra, rc) ==
    LET lines == [k \in 1..Len(rc) |-> MinimumPayments(rc)[k].line]
        after == [k \in 1..Len(rc) |-> MinimumPayments(rc)[k].card]
        applied == ExtraApplied(extra, after)
        name == after[TargetPosition(after)].name
        rec == IF ExtraDue(extra, after)
               THEN CHOOSE k \in 1..Len(lines) :
                        /\ lines[k].card = name
                        /\ \A j \in (k + 1)..Len(lines) : lines[j].card # name
               ELSE 0
    IN  [k \in 1..Len(rc) |->
            IF k = rec
            THEN [lines[k] EXCEPT
                    !.payment = RAdd(@, applied),
                    !.principal = RAdd(@, applied),
                    !.balance_after =
                        CardsAfterPeriod(extra, rc)[TargetPosition(after)].balance]
            ELSE lines[k]]

\* the payment records after the minimum payments and the extra payment
PaymentsOfPeriod(extra, rc) ==
    LET lines == [k \in 1..Len(rc) |-> MinimumPayments(rc)[k].line]
        after == [k \in 1..Len(rc) |-> MinimumPayments(rc)[k].card]
        applied == ExtraApplied(extra, after)
        rec == IF ExtraDue(extra, after)
               THEN FirstWithName(lines, after[TargetPosition(after)].name, 1)
               ELSE 0
    IN  [k \in 1..Len(rc) |->
            IF k = rec
            THEN [lines[k] EXCEPT
                    !.payment = RAdd(@, applied),
                    !.principal = RAdd(@, applied),
                    !.balance_after =
                        CardsAfterPeriod(extra, rc)[TargetPosition(after)].balance]
            ELSE lines[k]]

\* a variant that leaves the extra payment out of total_paid
MonthData_ExtraNotCounted(m, extra, rc) ==
    LET lines == [k \in 1..Len(rc) |-> MinimumPayments(rc)[k].line]
        final == CardsAfterPeriod(extra, rc)
    IN  [month |-> m,
         payments |-> PaymentsOfPeriod(extra, rc),
         balances_after |->
            [k \in 1..Len(rc) |->
                [card |-> final[k].name, balance |-> final[k].balance]],
         total_paid |-> RSum([k \in 1..Len(rc) |-> lines[k].payment]),
         interest_paid |-> RSum([k \in 1..Len(rc) |-> lines[k].interest])]

MonthData(m, extra, rc) ==
    LET lines == [k \in 1..Len(rc) |-> MinimumPayments(rc)[k].line]
        after == [k \in 1..Len(rc) |-> MinimumPayments(rc)[k].card]
        final == CardsAfterPeriod(extra, rc)
    IN  [month |-> m,
         payments |-> PaymentsOfPeriod(extra, rc),
         balances_after |->
            [k \in 1..Len(rc) |->
                [card |-> final[k].name, balance |-> final[k].balance]],
         total_paid |->
            RAdd(RSum([k \in 1..Len(rc) |-> lines[k].payment]),
                 ExtraApplied(extra, after)),
         interest_paid |-> RSum([k \in 1..Len(rc) |-> lines[k].interest])]

\* a variant that never takes a card off the working list
StillOwing_KeepSettled(rc) == rc

\* a variant that puts the cards still owing in the order of their current
\* balances again
StillOwing_Resorted(rc) ==
    LET owing == SelectSeq(rc, LAMBDA card : RGt(card.balance, Zero))
        n == Len(owing)
        Rank(i) == Cardinality({j \in 1..n :
                        \/ RLt(owing[j].balance, owing[i].balance)
                        \/ owing[j].balance = owing[i].balance /\ j < i})
    IN  [k \in 1..n |-> owing[CHOOSE i \in 1..n : Rank(i) = k - 1]]

StillOwing(rc) == SelectSeq(rc, LAMBDA card : RGt(card.balance, Zero))

\* a variant that lets one more period through
ExceedsCap_Late(m) == m > MaxMonths + 1

ExceedsCap(m) == m > MaxMonths

\* ------------------------------------------------------------- the result
BudgetError(budget, minimums) == [error |-> <<"budget", budget, minimums>>]

\* a variant that hands the periods computed so far back with the error
RunawayError_WithSchedule ==
    [error |-> <<"runaway">>, schedule |-> [len |-> MaxMonths, last |-> NoMonth]]

RunawayError == [error |-> <<"runaway">>]

\* the list schedule is stood for by its length and its last element
Success(len, last, interest, paid) ==
    [schedule |-> [len |-> len, last |-> last],
     total_months |-> len,
     total_interest_paid |-> interest,
     total_amount_paid |-> paid]

\* --------------------------------------------------------------- actions
\* lines 63-73: the budget does not cover the minimums
CallBudgetError ==
    /\ pc = "call"
    /\ BudgetTooSmall(total_monthly_payment, TotalMinimums(cards))
    /\ total_minimums' = TotalMinimums(cards)
    /\ result' = BudgetError(total_monthly_payment, TotalMinimums(cards))
    /\ cards' = InputAfterCall(cards, remaining_cards)
    /\ pc' = "done"
    /\ UNCHANGED <<total_monthly_payment, extra_payment, remaining_cards,
                   month, month_data, schedule_len, schedule_paid,
                   total_interest_paid, period_start, caller, outside>>

\* lines 63-91: the set-up before the loop
CallStart ==
    /\ pc = "call"
    /\ ~BudgetTooSmall(total_monthly_payment, TotalMinimums(cards))
    /\ total_minimums' = TotalMinimums(cards)
    /\ extra_payment' = ExtraPayment(total_monthly_payment, TotalMinimums(cards))
    /\ remaining_cards' = InitialRemaining(cards)
    /\ month' = 1
    /\ total_interest_paid' = Zero
    /\ cards' = InputAfterCall(cards, remaining_cards')
    /\ pc' = "loop"
    /\ UNCHANGED <<total_monthly_payment, month_data, schedule_len,
                   schedule_paid, period_start, result, caller, outside>>

\* lines 93-164: one pass of the loop, the safety check included
Period ==
    /\ pc = "loop"
    /\ remaining_cards # << >>
    /\ month_data' = MonthData(month, extra_payment, remaining_cards)
    /\ period_start' = remaining_cards
    /\ remaining_cards' = StillOwing(CardsAfterPeriod(extra_payment, remaining_cards))
    /\ total_interest_paid' = RAdd(total_interest_paid, month_data'.interest_paid)
    /\ schedule_len' = schedule_len + 1
    /\ schedule_paid' = RAdd(schedule_paid, month_data'.total_paid)
    /\ month' = month + 1
    /\ cards' = InputAfterCall(cards, CardsAfterPeriod(extra_payment, remaining_cards))
    /\ IF ExceedsCap(month')
       THEN /\ result' = RunawayError
            /\ pc' = "done"
       ELSE /\ result' = result
            /\ pc' = "loop"
    /\ UNCHANGED <<total_monthly_payment, total_minimums, extra_payment,
                   caller, outside>>

\* lines 166-171: the loop ended
Return ==
    /\ pc = "loop"
    /\ remaining_cards = << >>
    /\ result' = Success(schedule_len, month_data, total_interest_paid,
                         schedule_paid)
    /\ pc' = "done"
    /\ UNCHANGED <<cards, total_monthly_payment, total_minimums, extra_payment,
                   remaining_cards, month, month_data, schedule_len,
                   schedule_paid, total_interest_paid, period_start, caller, outside>>

\* the caller calls again, with the same list of the same objects and the
\* same budget; the locals of the new call are fresh
CallAgain ==
    /\ pc = "done"
    /\ calls = 1
    /\ calls' = 2
    /\ first_result' = result
    /\ pc' = "call"
    /\ total_minimums' = Zero
    /\ extra_payment' = Zero
    /\ remaining_cards' = << >>
    /\ month' = 1
    /\ month_data' = NoMonth
    /\ schedule_len' = 0
    /\ schedule_paid' = Zero
    /\ total_interest_paid' = Zero
    /\ period_start' = << >>
    /\ result' = NoResult
    /\ UNCHANGED <<cards, total_monthly_payment, outside>>

Next == CallBudgetError \/ CallStart \/ Period \/ Return

Spec == Init /\ [][Next]_vars

SpecLong == InitLong /\ [][Next]_vars

NextTwice == Next \/ CallAgain

SpecTwice == Init /\ [][NextTwice]_vars

\* ---------------------------------------------------- reading the schedule
HasPeriod == schedule_len > 0
Lines == month_data.payments
LineCount == Len(month_data.payments)

\* the CreditCard the k-th payment line of month_data belongs to: the lines
\* are appended in the order of the working list
LineCard(k) == cards[period_start[k].idx]

\* the payment the minimum step gives the k-th line: max(minimum, interest)
MinimumDerived(k) == RMax(LineCard(k).minimum_payment, Lines[k].interest)

PaidOverMinimum(k) == RGt(Lines[k].payment, MinimumDerived(k))

\* position i of the input comes before position j in the snowball order
Before(i, j) ==
    \/ RLt(cards[i].balance, cards[j].balance)
    \/ cards[i].balance = cards[j].balance /\ i < j

ActiveAtStart == {period_start[k].idx : k \in 1..Len(period_start)}

\* C1: in every period at most one payment line is paid more than
\* max(minimum_payment, interest), and it is the line of the first account
\* of the period's working list, which is the still active account with the
\* smallest starting balance, the earlier input position winning a tie.
C1_SnowballTargeting ==
    HasPeriod =>
        /\ Cardinality({k \in 1..LineCount : PaidOverMinimum(k)}) <= 1
        /\ \A k \in 1..LineCount : PaidOverMinimum(k) => k = 1
        /\ \A j \in ActiveAtStart \ {period_start[1].idx} :
                Before(period_start[1].idx, j)

\* two accounts with the same starting balance are active and the first of
\* them is paid the extra
C1_Witness ==
    /\ HasPeriod
    /\ LineCount = 2
    /\ LineCard(1).balance = LineCard(2).balance
    /\ PaidOverMinimum(1)

\* ------------------------------------------------------ reading the result
Done == pc = "done"
Succeeded == Done /\ "schedule" \in DOMAIN result
Failed == Done /\ "error" \in DOMAIN result
BudgetErrorReturned == Failed /\ result.error[1] = "budget"
RunawayErrorReturned == Failed /\ result.error[1] = "runaway"

\* the input positions with balance > 0, and what they owe
PositiveBalance == {i \in 1..Len(cards) : RGt(cards[i].balance, Zero)}

RECURSIVE SumMinimums(_)
SumMinimums(S) ==
    IF S = {} THEN Zero
    ELSE LET i == CHOOSE x \in S : TRUE
         IN  RAdd(cards[i].minimum_payment, SumMinimums(S \ {i}))

RECURSIVE SumBalances(_)
SumBalances(S) ==
    IF S = {} THEN Zero
    ELSE LET i == CHOOSE x \in S : TRUE
         IN  RAdd(cards[i].balance, SumBalances(S \ {i}))

RequiredMinimum == SumMinimums(PositiveBalance)

\* C2: on success total_amount_paid = total_interest_paid + the sum of the
\* initial balances of the accounts with balance > 0.
C2_Conservation ==
    Succeeded =>
        result.total_amount_paid =
            RAdd(result.total_interest_paid, SumBalances(PositiveBalance))

\* C3: a budget below the sum of the minimums of the accounts with
\* balance > 0 ends in the budget error with no period computed; a budget
\* that covers that sum never ends in the budget error.
C3_BudgetFloor ==
    pc # "call" =>
        IF RLt(total_monthly_payment, RequiredMinimum)
        THEN BudgetErrorReturned /\ schedule_len = 0 /\ month_data = NoMonth
        ELSE ~BudgetErrorReturned

\* the budget is not negative and still too small
C3_Witness ==
    /\ BudgetErrorReturned
    /\ RGe(total_monthly_payment, Zero)
    /\ Cardinality(PositiveBalance) = 2

\* C4: never more than 1000 periods are computed: after period 1000 the call
\* has returned, with the runaway error when an account still owes.
C4_TerminationBound ==
    /\ schedule_len <= MaxMonths
    /\ schedule_len = MaxMonths => Done
    /\ schedule_len = MaxMonths /\ remaining_cards # << >> => RunawayErrorReturned

\* period 1000 was computed, an account still owes, the runaway error is back
C4_Witness ==
    /\ schedule_len = MaxMonths
    /\ remaining_cards # << >>
    /\ RunawayErrorReturned

\* every balance_after lies between 0 and the account's initial balance
C5_BalanceInRange ==
    HasPeriod =>
        \A k \in 1..LineCount :
            /\ RGe(Lines[k].balance_after, Zero)
            /\ RLe(Lines[k].balance_after, LineCard(k).balance)

\* from a period to the next no account's balance_after rises
C5_NonIncreasing ==
    schedule_len > 0 /\ schedule_len' = schedule_len + 1 =>
        \A k \in 1..Len(month_data'.payments) :
            \A j \in 1..LineCount :
                period_start'[k].idx = period_start[j].idx =>
                    RLe(month_data'.payments[k].balance_after,
                        Lines[j].balance_after)

\* C5: an account's balance_after is never negative, never above the
\* account's initial balance, and never above its balance_after of the
\* period before.
C5_Monotonicity == []C5_BalanceInRange /\ [][C5_NonIncreasing]_vars

\* in its second or a later period an account's balance, already below the
\* initial balance, falls again and stays above zero
C5_Witness ==
    /\ month_data.month >= 2
    /\ \E k \in 1..LineCount :
        /\ RGt(Lines[k].balance_after, Zero)
        /\ RLt(Lines[k].balance_after, Lines[k].balance_before)
        /\ RLt(Lines[k].balance_before, LineCard(k).balance)

\* C6: in every period at whose end the first account of the working list
\* still owes, the total paid equals the monthly budget.
C6_RollOver ==
    HasPeriod /\ RGt(month_data.balances_after[1].balance, Zero) =>
        month_data.total_paid = total_monthly_payment

\* C7: the runaway error comes back only with an account still owing; when
\* every account has reached zero the call succeeds and total_months is the
\* number of periods computed.
C7_RunawayOnlyWithoutPayoff ==
    /\ RunawayErrorReturned => remaining_cards # << >>
    /\ Done /\ HasPeriod /\ remaining_cards = << >> =>
            Succeeded /\ result.total_months = schedule_len

\* C8: with no account of balance > 0 and a budget >= 0 the call returns
\* success with an empty schedule, 0 months, 0 interest and 0 paid.
C8_VacuousSuccess ==
    Done /\ PositiveBalance = {} /\ RGe(total_monthly_payment, Zero) =>
        /\ DOMAIN result = {"schedule", "total_months", "total_interest_paid",
                            "total_amount_paid"}
        /\ result.schedule.len = 0
        /\ result.total_months = 0
        /\ result.total_interest_paid = Zero
        /\ result.total_amount_paid = Zero

\* two accounts, neither with a balance > 0, one with a minimum payment
C8_Witness ==
    /\ Succeeded
    /\ Len(cards) = 2
    /\ PositiveBalance = {}
    /\ \E i \in 1..Len(cards) : RGt(cards[i].minimum_payment, Zero)

\* C9: accounts with balance <= 0 count neither in the required minimum nor
\* in the extra budget, and have no payment line and no balances_after
\* entry in any period.
C9_ZeroBalanceExcluded ==
    pc # "call" =>
        /\ total_minimums = RequiredMinimum
        /\ BudgetErrorReturned <=> RLt(total_monthly_payment, RequiredMinimum)
        /\ pc = "loop" =>
                extra_payment = RSub(total_monthly_payment, RequiredMinimum)
        /\ \A k \in 1..Len(remaining_cards) :
                remaining_cards[k].idx \in PositiveBalance
        /\ LineCount = Len(period_start)
        /\ Len(month_data.balances_after) = Len(period_start)
        /\ \A k \in 1..Len(period_start) :
                /\ period_start[k].idx \in PositiveBalance
                /\ Lines[k].card = LineCard(k).name
                /\ month_data.balances_after[k].card = LineCard(k).name

\* a period was computed for an input that holds an account without balance
\* but with a minimum payment
C9_Witness ==
    /\ HasPeriod
    /\ \E i \in 1..Len(cards) :
        /\ i \notin PositiveBalance
        /\ RGt(cards[i].minimum_payment, Zero)

PostMinimum(k) ==
    RMax(Zero,
         RSub(Lines[k].balance_before,
              RMax(Zero, RSub(LineCard(k).minimum_payment, Lines[k].interest))))

\* what the k-th line is paid beyond max(minimum, interest)
ExtraBooked(k) == RSub(Lines[k].payment, MinimumDerived(k))

\* one account owes, its minimum is not above its balance, and the budget
\* covers its balance and one month of interest on it
SingleCovered ==
    /\ Cardinality(PositiveBalance) = 1
    /\ \A i \in PositiveBalance :
        /\ RLe(cards[i].minimum_payment, cards[i].balance)
        /\ RGe(total_monthly_payment,
               RAdd(cards[i].balance,
                    RMul(cards[i].balance, RDivInt(cards[i].apr, 1200))))

\* C12: a single account with minimum <= balance whose budget covers balance
\* plus a month of interest is paid off in one month for exactly balance
\* plus that interest, not for the budget; in every period the extra paid to
\* the target is at most the target's balance after its minimum payment.
C12_ExcessNotPaid ==
    /\ HasPeriod => RLe(ExtraBooked(1), PostMinimum(1))
    /\ Done /\ SingleCovered =>
        /\ Succeeded
        /\ result.total_months = 1
        /\ \A i \in PositiveBalance :
            result.total_amount_paid =
                RAdd(cards[i].balance,
                     RMul(cards[i].balance, RDivInt(cards[i].apr, 1200)))

\* the budget is larger than balance plus interest, and interest accrues
C12_Witness ==
    /\ Succeeded
    /\ SingleCovered
    /\ RGt(result.total_interest_paid, Zero)
    /\ RGt(total_monthly_payment, result.total_amount_paid)

RECURSIVE SumMinimumDerived(_)
SumMinimumDerived(k) ==
    IF k = 0 THEN Zero ELSE RAdd(MinimumDerived(k), SumMinimumDerived(k - 1))

\* C13: with a budget equal to the sum of the minimums of the accounts with
\* balance > 0 there is no budget error, the extra budget is 0, and in every
\* period every line is paid exactly max(minimum_payment, interest).
C13_ExactBudget ==
    pc # "call" /\ total_monthly_payment = RequiredMinimum =>
        /\ ~BudgetErrorReturned
        /\ extra_payment = Zero
        /\ \A k \in 1..LineCount : Lines[k].payment = MinimumDerived(k)
        /\ month_data.total_paid = SumMinimumDerived(LineCount)

\* two accounts owe, the budget is exactly their minimums, a period is done
C13_Witness ==
    /\ HasPeriod
    /\ LineCount = 2
    /\ total_monthly_payment = RequiredMinimum
    /\ RGt(total_monthly_payment, Zero)
    /\ RGt(Lines[1].balance_after, Zero)

\* C14: the interest of every payment line is balance_before times
\* apr / 100 / 12 of the account, and balance_before is the working balance
\* with which the period began, before any payment of the period.
C14_InterestOnStartBalance ==
    HasPeriod =>
        \A k \in 1..LineCount :
            /\ Lines[k].balance_before = period_start[k].balance
            /\ LineCard(k).monthly_interest_rate = RDivInt(LineCard(k).apr, 1200)
            /\ Lines[k].interest =
                    RMul(Lines[k].balance_before, RDivInt(LineCard(k).apr, 1200))

\* in a later period interest is charged on a balance that is already
\* smaller than the account's initial balance
C14_Witness ==
    /\ month_data.month >= 2
    /\ \E k \in 1..LineCount :
        /\ RGt(Lines[k].interest, Zero)
        /\ RLt(Lines[k].balance_before, LineCard(k).balance)

Uncovered(k) == RLt(LineCard(k).minimum_payment, Lines[k].interest)

\* C18: in a period where an account's minimum_payment is smaller than its
\* interest, the payment of the minimum step is the interest, its principal
\* is 0 and the balance after the minimum step is the balance before: a
\* line that gets no extra shows exactly that, and on the first line
\* everything beyond the interest is the extra payment, taken from the
\* unchanged balance.
C18_MinimumBelowInterest ==
    HasPeriod =>
        \A k \in 1..LineCount : Uncovered(k) =>
            /\ RSub(Lines[k].payment, Lines[k].principal) = Lines[k].interest
            /\ RSub(Lines[k].balance_before, Lines[k].principal) =
                    Lines[k].balance_after
            /\ Lines[k].principal =
                    (IF k = 1 /\ RGt(extra_payment, Zero)
                     THEN RMin(extra_payment, Lines[k].balance_before)
                     ELSE Zero)

\* a second line whose minimum does not cover its interest, and a first
\* line in the same condition that also receives extra
C18_Witness ==
    /\ HasPeriod
    /\ LineCount = 2
    /\ Uncovered(1)
    /\ Uncovered(2)
    /\ RGt(Lines[1].principal, Zero)
    /\ RGt(LineCard(2).minimum_payment, Zero)

\* C19: the extra budget is the monthly budget minus the minimums of the
\* initially active accounts for the whole run, and the extra booked in a
\* period is exactly min(extra budget, balance of the target after its
\* minimum payment): nothing is added for minimums freed by settled
\* accounts or for extra left unused earlier.
C19_ExtraFixed ==
    /\ pc # "call" /\ ~BudgetErrorReturned =>
            extra_payment = RSub(total_monthly_payment, RequiredMinimum)
    /\ HasPeriod =>
        /\ ExtraBooked(1) = RMin(extra_payment, PostMinimum(1))
        /\ month_data.total_paid =
                RAdd(SumMinimumDerived(LineCount),
                     RMin(extra_payment, PostMinimum(1)))

\* a later period in which an account with a minimum has been settled and
\* the target still owes more than the extra budget
C19_Witness ==
    /\ month_data.month >= 2
    /\ LineCount = 1
    /\ Cardinality(PositiveBalance) = 2
    /\ RGt(RequiredMinimum, LineCard(1).minimum_payment)
    /\ RGt(extra_payment, Zero)
    /\ RGt(PostMinimum(1), extra_payment)
    /\ ExtraBooked(1) = extra_payment

\* C20: only the first line of a period can carry extra, and only when its
\* account still owes after the minimum step; every other line is paid
\* max(minimum_payment, interest) and ends at its post-minimum balance,
\* whatever part of the extra budget went unused.
C20_ExtraOnlyToFirst ==
    HasPeriod =>
        /\ \A k \in 2..LineCount :
            /\ Lines[k].payment = MinimumDerived(k)
            /\ Lines[k].balance_after = PostMinimum(k)
            /\ month_data.balances_after[k].balance = PostMinimum(k)
        /\ PostMinimum(1) = Zero => Lines[1].payment = MinimumDerived(1)
        /\ RLe(Lines[1].payment,
               RAdd(MinimumDerived(1), PostMinimum(1)))

\* the extra budget exceeds what the first account still owes while the
\* second account still owes at the end of the period
C20_Witness ==
    /\ HasPeriod
    /\ LineCount = 2
    /\ RGt(PostMinimum(1), Zero)
    /\ RGt(extra_payment, PostMinimum(1))
    /\ RGt(Lines[2].balance_after, Zero)

\* the first account is settled by its minimum alone, extra budget is left
\* and the second account still owes
C20_SettledByMinimum ==
    /\ HasPeriod
    /\ LineCount = 2
    /\ RGt(Lines[1].balance_before, Zero)
    /\ PostMinimum(1) = Zero
    /\ RGt(extra_payment, Zero)
    /\ RGt(Lines[2].balance_after, Zero)

\* ------------------------------------------------------- parse_due_date
\* A string is a sequence of characters.  LongRun stands for a block of
\* 4301 digits "9", one digit more than int() converts to an integer on
\* an interpreter with the default limit on integer string conversion.
LongRun == "9...9"

MaxDueLen == 4

Digits == {"0", "1", "2", "3", "4", "5", "6", "7", "8", "9"}

DigitValue ==
    ("0" :> 0) @@ ("1" :> 1) @@ ("2" :> 2) @@ ("3" :> 3) @@ ("4" :> 4) @@
    ("5" :> 5) @@ ("6" :> 6) @@ ("7" :> 7) @@ ("8" :> 8) @@ ("9" :> 9)

UpperCase == ("S" :> "s") @@ ("T" :> "t") @@ ("H" :> "h")

LowerLetters == {"s", "t", "h", "n", "d", "r"}

DueChars == {"0", "1", "3", "s", "t", "T", "h", " ", LongRun}

DueDates == UNION {[1..n -> DueChars] : n \in 0..MaxDueLen}

\* \d
IsDigit(c) == c \in Digits \cup {LongRun}

\* \w
IsWord(c) == IsDigit(c) \/ c \in LowerLetters \/ c \in DOMAIN UpperCase \/ c = "_"

\* str.lower
lower(str) ==
    [i \in 1..Len(str) |->
        IF str[i] \in DOMAIN UpperCase THEN UpperCase[str[i]] ELSE str[i]]

RECURSIVE lstrip(_)
lstrip(str) ==
    IF str # << >> /\ Head(str) = " " THEN lstrip(Tail(str)) ELSE str

RECURSIVE rstrip(_)
rstrip(str) ==
    IF str # << >> /\ str[Len(str)] = " "
    THEN rstrip(SubSeq(str, 1, Len(str) - 1))
    ELSE str

\* str.strip
strip(str) == rstrip(lstrip(str))

OrdinalSuffixes == {<<"s", "t">>, <<"n", "d">>, <<"r", "d">>, <<"t", "h">>}

\* (st|nd|rd|th)\b matches at position i
SuffixAt(str, i) ==
    /\ i + 1 <= Len(str)
    /\ <<str[i], str[i + 1]>> \in OrdinalSuffixes
    /\ (i + 1 = Len(str) \/ ~IsWord(str[i + 2]))

\* re.sub(r'(st|nd|rd|th)\b', '', str), scanning from position i
RECURSIVE SubSuffixes(_, _)
SubSuffixes(str, i) ==
    IF i > Len(str) THEN << >>
    ELSE IF SuffixAt(str, i) THEN SubSuffixes(str, i + 2)
    ELSE <<str[i]>> \o SubSuffixes(str, i + 1)

\* the digits matched by \d+ when the match starts at position i
RECURSIVE DigitsFrom(_, _)
DigitsFrom(str, i) ==
    IF i <= Len(str) /\ IsDigit(str[i])
    THEN <<str[i]>> \o DigitsFrom(str, i + 1)
    ELSE << >>

\* re.search(r'\d+', str), scanning from position i; << >> for no match
RECURSIVE SearchDigits(_, _)
SearchDigits(str, i) ==
    IF i > Len(str) THEN << >>
    ELSE IF IsDigit(str[i]) THEN DigitsFrom(str, i)
    ELSE SearchDigits(str, i + 1)

\* the number written by a sequence of digits
RECURSIVE Number(_)
Number(ds) ==
    IF ds = << >> THEN 0
    ELSE 10 * Number(SubSeq(ds, 1, Len(ds) - 1)) + DigitValue[ds[Len(ds)]]

TooLongForInt(ds) == \E i \in 1..Len(ds) : ds[i] = LongRun

parse_due_date(str) ==
    LET cleaned == SubSuffixes(strip(lower(str)), 1)
        match == SearchDigits(cleaned, 1)
    IN  IF match # << >>
        THEN IF TooLongForInt(match)
             THEN [t |-> "ValueError", n |-> 0]
             ELSE IF 1 <= Number(match) /\ Number(match) <= 31
             THEN [t |-> "return", n |-> Number(match)]
             ELSE [t |-> "return", n |-> 15]
        ELSE [t |-> "return", n |-> 15]

engine == <<cards, total_monthly_payment, pc, total_minimums, extra_payment,
            remaining_cards, month, month_data, schedule_len, schedule_paid,
            total_interest_paid, period_start, result, calls, first_result>>

\* no call of create_payment_schedule is under way
EngineIdle ==
    /\ cards = << >>
    /\ total_monthly_payment = Zero
    /\ pc = "call"
    /\ total_minimums = Zero
    /\ extra_payment = Zero
    /\ remaining_cards = << >>
    /\ month = 1
    /\ month_data = NoMonth
    /\ schedule_len = 0
    /\ schedule_paid = Zero
    /\ total_interest_paid = Zero
    /\ period_start = << >>
    /\ result = NoResult
    /\ calls = 1
    /\ first_result = NoResult

InitDue ==
    /\ EngineIdle
    /\ ReaderIdle
    /\ due_date \in DueDates
    /\ day = Pending

ParseDueDate ==
    /\ day = Pending
    /\ day' = parse_due_date(due_date)
    /\ UNCHANGED <<due_date, engine, reader>>

NextDue == ParseDueDate

SpecDue == InitDue /\ [][NextDue]_vars

\* the first run of digits of the input string itself
FirstDigitRun ==
    IF \E i \in 1..Len(due_date) : IsDigit(due_date[i])
    THEN LET first == CHOOSE i \in 1..Len(due_date) :
                        /\ IsDigit(due_date[i])
                        /\ \A j \in 1..(i - 1) : ~IsDigit(due_date[j])
             last == CHOOSE j \in first..Len(due_date) :
                        /\ \A k \in first..j : IsDigit(due_date[k])
                        /\ (j = Len(due_date) \/ ~IsDigit(due_date[j + 1]))
         IN  SubSeq(due_date, first, last)
    ELSE << >>

\* the day the input string stands for
ExpectedDay ==
    IF FirstDigitRun = << >> \/ TooLongForInt(FirstDigitRun) THEN 15
    ELSE IF Number(FirstDigitRun) \in 1..31 THEN Number(FirstDigitRun)
    ELSE 15

\* C17: parse_due_date returns, for every input string, an integer in
\* 1..31: the number of the first run of digits when it is in 1..31, and
\* 15 when there are no digits or the number is outside 1..31.
C17_DueDateDay ==
    day # Pending =>
        /\ day.t = "return"
        /\ day.n \in 1..31
        /\ day.n = ExpectedDay

\* the same for the strings whose digit runs int() can convert
C17_ConvertibleRuns ==
    day # Pending /\ ~TooLongForInt(due_date) =>
        /\ day.t = "return"
        /\ day.n \in 1..31
        /\ day.n = ExpectedDay

\* ------------------------------------- the file readers and the prompts
MaxRecords == 2

\* what a JSON file can hold in a number field: nothing, the integers
\* -1, 0 and 1, the literal NaN, the strings "2" and "abc", null, and an
\* integer with 400 digits
JsonNumbers ==
    {Absent, Field("int", -1), Field("int", 0), Field("int", 1),
     Field("nan", 0), Field("numstr", 2), Field("text", 0),
     Field("null", 0), Field("huge", 0)}

\* what a CSV file can hold in a number column: the strings "-1", "0",
\* "1", "2", "nan" and "abc", and None where the row is too short
CsvNumbers ==
    {Field("numstr", -1), Field("numstr", 0), Field("numstr", 1),
     Field("numstr", 2), Field("nanstr", 0), Field("text", 0),
     Field("null", 0)}

OptionalNumbers == {Absent, Field("text", 0)}

JsonNames ==
    {NameField("absent", << >>), NameField("str", <<"A">>),
     NameField("str", <<" ">>)}

CsvNames ==
    {NameField("str", <<"A">>), NameField("str", <<" ">>),
     NameField("null", << >>)}

\* the elements a JSON array can hold: objects, and values of other types
JsonRecords ==
    [shape : {"object"}, card_name : JsonNames,
     current_balance : JsonNumbers, minimum_payment : JsonNumbers,
     apr : OptionalNumbers, credit_limit : OptionalNumbers]
    \cup {[NoRecord EXCEPT !.shape = sh] :
            sh \in {"string", "list", "number", "null"}}

CsvRows ==
    [shape : {"row"}, card_name : CsvNames,
     current_balance : CsvNumbers, minimum_payment : CsvNumbers,
     apr : {Absent}, credit_limit : {Field("blank", 0), Field("text", 0)}]

\* the floats a user can answer a prompt of type float with
PromptFloats == {Num(-1), Num(0), Num(1), Num(2), NaN}

Sources ==
    [kind : {"json"}, data : {"list", "object", "other", "unreadable"},
     default_apr : {Absent, Field("int", 6), Field("text", 0)}]
    \cup [kind : {"csv"}, data : {"headers", "missing headers", "unreadable"},
          default_apr : {Absent}]
    \cup {[kind |-> "prompt", data |-> "none", default_apr |-> Absent]}

\* float(x): the float, or the exception it raises
float(x) ==
    CASE x.t \in {"int", "numstr"} -> Num(x.n)
      [] x.t \in {"nan", "nanstr"} -> NaN
      [] x.t \in {"text", "blank"} -> Field("ValueError", 0)
      [] x.t = "null" -> Field("TypeError", 0)
      [] x.t = "huge" -> Field("OverflowError", 0)

IsFloat(x) == x.t \in {"num", "nan"}

\* a < b and a > b on floats: false when either side is NaN
FLt(a, b) == a.t = "num" /\ b.t = "num" /\ a.n < b.n

FGt(a, b) == FLt(b, a)

ReadCard(name, balance, min_payment) ==
    [name |-> name, balance |-> balance, minimum_payment |-> min_payment]

Accept(card) == [do |-> "append", exc |-> "", card |-> card]

Raise(exc) ==
    [do |-> "raise", exc |-> exc, card |-> ReadCard(<< >>, Num(0), Num(0))]

\* the checks of balance and minimum payment that both readers make, then
\* the conversions of the remaining number fields, then the new record
CheckAmounts(name, balance, min_payment, rest) ==
    IF ~IsFloat(balance) THEN Raise(balance.t)
    ELSE IF FLt(balance, Num(0)) THEN Raise("ValueError")
    ELSE IF ~IsFloat(min_payment) THEN Raise(min_payment.t)
    ELSE IF FLt(min_payment, Num(0)) THEN Raise("ValueError")
    ELSE IF FGt(balance, Num(0)) /\ FGt(min_payment, balance)
    THEN Raise("ValueError")
    ELSE IF \E i \in 1..Len(rest) : ~IsFloat(rest[i])
    THEN Raise((rest[CHOOSE i \in 1..Len(rest) :
                        /\ ~IsFloat(rest[i])
                        /\ \A j \in 1..(i - 1) : IsFloat(rest[j])]).t)
    ELSE Accept(ReadCard(name, balance, min_payment))

\* the body of the try of read_cards_from_json for one element
JsonTry(rec, file_default_apr) ==
    IF rec.shape \in {"number", "null"} THEN Raise("TypeError")
    ELSE IF rec.shape \in {"string", "list"} THEN Raise("ValueError")
    ELSE IF \/ rec.card_name.t = "absent"
            \/ rec.current_balance = Absent
            \/ rec.minimum_payment = Absent
    THEN Raise("ValueError")
    ELSE IF strip(rec.card_name.s) = << >> THEN Raise("ValueError")
    ELSE CheckAmounts(strip(rec.card_name.s),
                      float(rec.current_balance),
                      float(rec.minimum_payment),
                      <<IF rec.apr = Absent THEN file_default_apr
                        ELSE float(rec.apr),
                        IF rec.credit_limit = Absent THEN Num(0)
                        ELSE float(rec.credit_limit)>>)

\* one element of the JSON array: "append", "skip" or "abort".  The except
\* clause takes ValueError, KeyError and TypeError and then calls
\* card_data.get, which only an object has.
JsonElement(rec, file_default_apr) ==
    LET tried == JsonTry(rec, file_default_apr)
    IN  IF tried.do = "append" THEN tried
        ELSE IF tried.exc \in {"ValueError", "KeyError", "TypeError"}
        THEN IF rec.shape = "object"
             THEN [tried EXCEPT !.do = "skip"]
             ELSE [tried EXCEPT !.do = "abort", !.exc = "AttributeError"]
        ELSE [tried EXCEPT !.do = "abort"]

\* the body of the try of read_cards_from_csv for one row
CsvTry(row) ==
    IF row.card_name.t = "null" THEN Raise("AttributeError")
    ELSE IF strip(row.card_name.s) = << >> THEN Raise("ValueError")
    ELSE IF ~IsFloat(float(row.current_balance))
    THEN Raise(float(row.current_balance).t)
    ELSE IF FLt(float(row.current_balance), Num(0)) THEN Raise("ValueError")
    ELSE IF row.credit_limit.t = "null" THEN Raise("AttributeError")
    ELSE IF row.credit_limit.t # "blank" /\ ~IsFloat(float(row.credit_limit))
    THEN Raise(float(row.credit_limit).t)
    ELSE CheckAmounts(strip(row.card_name.s),
                      float(row.current_balance),
                      float(row.minimum_payment),
                      << >>)

\* one row of the CSV file: the except clause takes ValueError and KeyError
CsvElement(row) ==
    LET tried == CsvTry(row)
    IN  IF tried.do = "append" THEN tried
        ELSE IF tried.exc \in {"ValueError", "KeyError"}
        THEN [tried EXCEPT !.do = "skip"]
        ELSE [tried EXCEPT !.do = "abort"]

Reading == [t |-> "reading", msg |-> ""]

Returned == [t |-> "returned", msg |-> ""]

Raised(msg) == [t |-> "raised", msg |-> msg]

\* the valid records of a file: every required field present, a name
\* that is not blank, numbers that parse, no negative balance or minimum,
\* no minimum above a positive balance
Parses(x) == x.t \in {"int", "numstr", "nan", "nanstr"}

ParsedValue(x) == IF x.t \in {"int", "numstr"} THEN Num(x.n) ELSE NaN

ValidRecord(rec) ==
    /\ rec.shape = "object"
    /\ rec.card_name.t = "str"
    /\ \E i \in 1..Len(rec.card_name.s) : rec.card_name.s[i] # " "
    /\ Parses(rec.current_balance)
    /\ Parses(rec.minimum_payment)
    /\ ~(rec.current_balance.n < 0)
    /\ ~(rec.minimum_payment.n < 0)
    /\ ~(/\ ParsedValue(rec.current_balance).t = "num"
          /\ ParsedValue(rec.minimum_payment).t = "num"
          /\ rec.current_balance.n > 0
          /\ rec.minimum_payment.n > rec.current_balance.n)
    /\ rec.apr = Absent \/ Parses(rec.apr)
    /\ rec.credit_limit = Absent \/ Parses(rec.credit_limit)

ValidCard(rec) ==
    ReadCard(SelectSeq(rec.card_name.s, LAMBDA c : c # " "),
             ParsedValue(rec.current_balance),
             ParsedValue(rec.minimum_payment))

InitRead ==
    /\ EngineIdle
    /\ CalendarIdle
    /\ source \in Sources
    /\ card_num = 0
    /\ card_data = NoRecord
    /\ read_cards = << >>
    /\ valid_records = << >>
    /\ read_result = NotRead
    /\ entry = IF source.kind = "prompt"
               THEN [NoEntry EXCEPT !.at = "card"]
               ELSE NoEntry

\* open the file, load it, find the array and the default APR
JsonOpen ==
    /\ source.kind = "json"
    /\ read_result = NotRead
    /\ read_result' =
            IF source.data = "unreadable"
            THEN Raised("File not found, permission denied or invalid JSON")
            ELSE IF source.data = "other"
            THEN Raised("Error reading JSON file")
            ELSE IF /\ source.data = "object"
                    /\ source.default_apr # Absent
                    /\ ~IsFloat(float(source.default_apr))
            THEN Raised("Error reading JSON file")
            ELSE Reading
    /\ UNCHANGED <<source, card_num, card_data, read_cards, valid_records,
                   entry, engine, calendar>>

\* one iteration of the loop over cards_data
JsonCard ==
    /\ source.kind = "json"
    /\ read_result = Reading
    /\ card_num < MaxRecords
    /\ \E rec \in JsonRecords :
        LET file_default_apr ==
                IF source.data = "object" /\ source.default_apr # Absent
                THEN float(source.default_apr) ELSE Num(18)
            outcome == JsonElement(rec, file_default_apr)
        IN  /\ card_data' = rec
            /\ card_num' = card_num + 1
            /\ read_cards' = IF outcome.do = "append"
                             THEN Append(read_cards, outcome.card)
                             ELSE read_cards
            /\ read_result' = IF outcome.do = "abort"
                              THEN Raised("Error reading JSON file")
                              ELSE read_result
            /\ valid_records' = IF ValidRecord(rec)
                                THEN Append(valid_records, ValidCard(rec))
                                ELSE valid_records
    /\ UNCHANGED <<source, entry, engine, calendar>>

\* the array has no further element: the check for an empty array, which
\* the code makes before the loop, and the check after the loop
JsonEnd ==
    /\ source.kind = "json"
    /\ read_result = Reading
    /\ read_result' =
            IF card_num = 0 THEN Raised("Error reading JSON file")
            ELSE IF read_cards = << >>
            THEN Raised("No valid credit card data found in JSON file")
            ELSE Returned
    /\ UNCHANGED <<source, card_num, card_data, read_cards, valid_records,
                   entry, engine, calendar>>

\* open the file and check the normalized headers
CsvOpen ==
    /\ source.kind = "csv"
    /\ read_result = NotRead
    /\ read_result' =
            IF source.data = "unreadable"
            THEN Raised("File not found or permission denied")
            ELSE IF source.data = "missing headers"
            THEN Raised("Error reading CSV file")
            ELSE Reading
    /\ UNCHANGED <<source, card_num, card_data, read_cards, valid_records,
                   entry, engine, calendar>>

\* one iteration of the loop over the rows
CsvRow ==
    /\ source.kind = "csv"
    /\ read_result = Reading
    /\ card_num < MaxRecords
    /\ \E row \in CsvRows :
        LET outcome == CsvElement(row)
        IN  /\ card_data' = row
            /\ card_num' = card_num + 1
            /\ read_cards' = IF outcome.do = "append"
                             THEN Append(read_cards, outcome.card)
                             ELSE read_cards
            /\ read_result' = IF outcome.do = "abort"
                              THEN Raised("Error reading CSV file")
                              ELSE read_result
    /\ UNCHANGED <<source, valid_records, entry, engine, calendar>>

CsvEnd ==
    /\ source.kind = "csv"
    /\ read_result = Reading
    /\ read_result' =
            IF read_cards = << >>
            THEN Raised("No valid credit card data found in CSV file")
            ELSE Returned
    /\ UNCHANGED <<source, card_num, card_data, read_cards, valid_records,
                   entry, engine, calendar>>

\* the prompts for the name and the credit limit of the next card
PromptCard ==
    /\ source.kind = "prompt"
    /\ entry.at = "card"
    /\ \E credit_limit \in {Num(0), Num(1), NaN} :
            entry' = [at |-> "balance", credit_limit |-> credit_limit,
                      balance |-> Num(0)]
    /\ UNCHANGED <<source, card_num, card_data, read_cards, valid_records,
                   read_result, engine, calendar>>

\* one turn of the loop that asks for the current balance
PromptBalance ==
    /\ source.kind = "prompt"
    /\ entry.at = "balance"
    /\ \E balance \in PromptFloats :
            entry' =
                IF FLt(balance, Num(0)) THEN entry
                ELSE IF /\ FGt(entry.credit_limit, Num(0))
                        /\ FGt(balance, entry.credit_limit)
                THEN entry
                ELSE [entry EXCEPT !.at = "minimum", !.balance = balance]
    /\ UNCHANGED <<source, card_num, card_data, read_cards, valid_records,
                   read_result, engine, calendar>>

\* one turn of the loop that asks for the minimum payment; once an answer
\* passes, the remaining prompts follow and the card is appended
PromptMinimum ==
    /\ source.kind = "prompt"
    /\ entry.at = "minimum"
    /\ \E min_payment \in PromptFloats :
            IF \/ FLt(min_payment, Num(0))
               \/ FGt(entry.balance, Num(0)) /\ FGt(min_payment, entry.balance)
            THEN UNCHANGED <<entry, read_cards, card_num>>
            ELSE /\ entry' = [entry EXCEPT !.at = "another"]
                 /\ read_cards' =
                        Append(read_cards,
                               ReadCard(<<"A">>, entry.balance, min_payment))
                 /\ card_num' = card_num + 1
    /\ UNCHANGED <<source, card_data, valid_records, read_result, engine,
                   calendar>>

\* the answer to "Add another credit card?"
PromptAnother ==
    /\ source.kind = "prompt"
    /\ entry.at = "another"
    /\ \/ /\ card_num < MaxRecords
           /\ entry' = [NoEntry EXCEPT !.at = "card"]
           /\ UNCHANGED read_result
       \/ /\ entry' = [NoEntry EXCEPT !.at = "finished"]
           /\ read_result' = Returned
    /\ UNCHANGED <<source, card_num, card_data, read_cards, valid_records,
                   engine, calendar>>

NextRead ==
    \/ JsonOpen
    \/ JsonCard
    \/ JsonEnd
    \/ CsvOpen
    \/ CsvRow
    \/ CsvEnd
    \/ PromptCard
    \/ PromptBalance
    \/ PromptMinimum
    \/ PromptAnother

SpecRead == InitRead /\ [][NextRead]_vars

FGe(a, b) == a.t = "num" /\ b.t = "num" /\ a.n >= b.n

\* the records the caller of a reader or of the entry loop holds
Ingested ==
    IF source.kind = "prompt" \/ read_result = Returned
    THEN {read_cards[i] : i \in 1..Len(read_cards)}
    ELSE {}

\* C15: every record returned by read_cards_from_json or
\* read_cards_from_csv, and every record accepted by the interactive
\* entry loop, has balance >= 0, minimum_payment >= 0 and
\* minimum_payment <= balance whenever balance > 0; a record from a file
\* also has a name that is not empty.
C15_IngestionInvariant ==
    \A card \in Ingested :
        /\ FGe(card.balance, Num(0))
        /\ FGe(card.minimum_payment, Num(0))
        /\ FGt(card.balance, Num(0)) =>
                FGe(card.balance, card.minimum_payment)
        /\ source.kind \in {"json", "csv"} => card.name # << >>

\* the same for the records whose balance and minimum are numbers
C15_NumbersOnly ==
    \A card \in Ingested :
        card.balance.t = "num" /\ card.minimum_payment.t = "num" =>
            /\ FGe(card.balance, Num(0))
            /\ FGe(card.minimum_payment, Num(0))
            /\ FGt(card.balance, Num(0)) =>
                    FGe(card.balance, card.minimum_payment)
            /\ source.kind \in {"json", "csv"} => card.name # << >>

JsonRead ==
    /\ source.kind = "json"
    /\ source.data \in {"list", "object"}
    /\ source.data = "object" /\ source.default_apr # Absent =>
            Parses(source.default_apr)

\* C16: read_cards_from_json skips each invalid record and continues with
\* the next one, so that it returns the valid records of the file in
\* their order whenever there is one, and it raises "No valid credit
\* card data" only when no record of the file is valid.
C16_SkipInvalidRecords ==
    JsonRead /\ read_result.t \in {"returned", "raised"} =>
        /\ valid_records # << >> =>
                read_result = Returned /\ read_cards = valid_records
        /\ read_result =
                Raised("No valid credit card data found in JSON file") =>
                    valid_records = << >>

\* the same for files whose array holds objects only, with numbers that
\* fit a float
C16_ObjectsOnly ==
    /\ JsonRead
    /\ read_result.t \in {"returned", "raised"}
    /\ read_result # Raised("Error reading JSON file")
    => /\ valid_records # << >> =>
                read_result = Returned /\ read_cards = valid_records
       /\ read_result =
                Raised("No valid credit card data found in JSON file") =>
                    valid_records = << >>

\* ------------------------------------------- the order of the working list
\* the input positions of the accounts of a working list, in its order
IdxOf(rc) == [k \in 1..Len(rc) |-> rc[k].idx]

\* a list of input positions is in the order of the initial sort
InInitialOrder(ix) ==
    \A k, l \in 1..Len(ix) : k < l => Before(ix[k], ix[l])

\* the positions of the payment lines that end the period above zero
OwingLines ==
    SelectSeq([k \in 1..LineCount |-> k],
              LAMBDA k : RGt(Lines[k].balance_after, Zero))

\* C21: the accounts are ordered once, by ascending initial balance with
\* the input order breaking ties; the payment lines of every period list
\* the active accounts in that order, and the working list left by a
\* period is the list of the period without the settled accounts, in the
\* same order, whatever the current balances are.
C21_NoResorting ==
    /\ InInitialOrder(IdxOf(remaining_cards))
    /\ HasPeriod =>
        /\ InInitialOrder(IdxOf(period_start))
        /\ \A k \in 1..LineCount : Lines[k].card = LineCard(k).name
        /\ IdxOf(remaining_cards) =
                [j \in 1..Len(OwingLines) |-> period_start[OwingLines[j]].idx]

\* a later period starts with the first account owing more than the second,
\* and both are still owing when it ends
C21_Witness ==
    /\ month_data.month >= 2
    /\ LineCount = 2
    /\ RGt(Lines[1].balance_before, Lines[2].balance_before)
    /\ Len(remaining_cards) = 2
    /\ RGt(remaining_cards[1].balance, remaining_cards[2].balance)

\* ------------------------------------------------ from one period to the next
\* the step appends a period to the schedule
PeriodStep == schedule_len' = schedule_len + 1

\* the accounts whose payment line of the last period ends above zero
OwingAfterPeriod == {period_start[OwingLines[j]].idx : j \in 1..Len(OwingLines)}

\* an account has a line in the next period exactly if its line of this
\* period ends with balance_after > 0, and it has one line there
C22_NextLines ==
    PeriodStep /\ HasPeriod =>
        /\ {period_start'[k].idx : k \in 1..Len(period_start')} = OwingAfterPeriod
        /\ Len(month_data'.payments) = Cardinality(OwingAfterPeriod)
        /\ Len(period_start') = Len(month_data'.payments)

\* the working list never gains an account once the loop runs
C22_NoGain ==
    pc = "loop" =>
        {remaining_cards'[k].idx : k \in 1..Len(remaining_cards')}
            \subseteq {remaining_cards[k].idx : k \in 1..Len(remaining_cards)}

\* C22: Active to Settled is one-directional: an account has a payment
\* line in period k+1 if and only if it had one in period k with
\* balance_after > 0, so a settled account has no line in any later
\* period, and the working set never gains an account.
C22_OneDirectional == [][C22_NextLines /\ C22_NoGain]_vars

\* a third period runs with one account after the other one was settled
C22_Witness ==
    /\ month_data.month >= 3
    /\ LineCount = 1
    /\ Cardinality(PositiveBalance) = 2
    /\ Len(remaining_cards) = 1

\* the lines of the first period start from the balances of the records
C30_FirstPeriod ==
    month_data.month = 1 =>
        \A k \in 1..LineCount : Lines[k].balance_before = LineCard(k).balance

\* every line of the next period starts from the balance_after of the
\* line of the same account in this period
C30_NextPeriod ==
    PeriodStep /\ HasPeriod =>
        \A n \in 1..Len(month_data'.payments) :
            \E k \in 1..LineCount :
                /\ period_start[k].idx = period_start'[n].idx
                /\ month_data'.payments[n].balance_before =
                        Lines[k].balance_after

\* C30: balance_before in the first period is the initial balance of the
\* record, and balance_before in period k+1 is the balance_after of the
\* same account in period k, the extra payment included: no interest is
\* added to the balance carried from one period to the next.
C30_Continuity == []C30_FirstPeriod /\ [][C30_NextPeriod]_vars

\* a later period with two lines, interest, and a first line that was
\* brought below its initial balance with the help of the extra payment
C30_Witness ==
    /\ month_data.month >= 2
    /\ LineCount = 2
    /\ RGt(extra_payment, Zero)
    /\ RGt(Lines[1].interest, Zero)
    /\ RGt(Lines[2].interest, Zero)
    /\ RLt(Lines[1].balance_before, LineCard(1).balance)

\* the sums of one period, and the result of a successful call
C24_PeriodSums ==
    /\ HasPeriod =>
        /\ month_data.total_paid =
                RSum([k \in 1..LineCount |-> Lines[k].payment])
        /\ month_data.interest_paid =
                RSum([k \in 1..LineCount |-> Lines[k].interest])
        /\ month_data.month = schedule_len
    /\ ~HasPeriod /\ pc # "call" => schedule_paid = Zero /\ total_interest_paid = Zero
    /\ Succeeded =>
        /\ result.total_months = schedule_len
        /\ result.schedule.len = schedule_len
        /\ result.total_amount_paid = schedule_paid
        /\ result.total_interest_paid = total_interest_paid

\* every period adds the payments and the interest of its lines to the
\* running totals, and its month is its place in the schedule
C24_Running ==
    PeriodStep =>
        /\ schedule_paid' =
                RAdd(schedule_paid,
                     RSum([k \in 1..Len(month_data'.payments) |->
                            month_data'.payments[k].payment]))
        /\ total_interest_paid' =
                RAdd(total_interest_paid,
                     RSum([k \in 1..Len(month_data'.payments) |->
                            month_data'.payments[k].interest]))
        /\ month_data'.month = schedule_len'

\* C24: each period's total_paid is the sum of the payments of its lines,
\* the extra included, and its interest_paid the sum of their interest;
\* total_amount_paid and total_interest_paid of a successful result are the
\* sums of these over all periods, total_months is the number of periods
\* and the i-th period has month = i.
C24_Aggregation == []C24_PeriodSums /\ [][C24_Running]_vars

\* a successful schedule of several periods whose last period has extra
\* and interest in it
C24_Witness ==
    /\ Succeeded
    /\ schedule_len >= 2
    /\ PaidOverMinimum(1)
    /\ RGt(month_data.interest_paid, Zero)

\* C23: in every payment line of every period, the line that received the
\* extra payment included, payment = interest + principal, principal >= 0
\* and balance_after = max(0, balance_before - principal).
C23_LineIdentity ==
    HasPeriod =>
        \A k \in 1..LineCount :
            /\ Lines[k].payment = RAdd(Lines[k].interest, Lines[k].principal)
            /\ RGe(Lines[k].principal, Zero)
            /\ Lines[k].balance_after =
                    RMax(Zero, RSub(Lines[k].balance_before, Lines[k].principal))

\* the first line carries extra and interest, and the principal of another
\* line is more than the account owed
C23_Witness ==
    /\ HasPeriod
    /\ LineCount = 2
    /\ PaidOverMinimum(1)
    /\ RGt(Lines[1].interest, Zero)
    /\ RLt(Lines[2].balance_before, Lines[2].principal)

\* C25: a returned result is exactly one of an error and a success: an
\* error has the key error and nothing else, also when periods were
\* computed before the abort, and a success has the schedule and the
\* totals and no error; a budget below the minimums and a schedule beyond
\* the cap are returned as such results.
C25_ErrorOrSuccess ==
    Done =>
        /\ Failed # Succeeded
        /\ Failed => DOMAIN result = {"error"}
        /\ Succeeded =>
                DOMAIN result = {"schedule", "total_months",
                                 "total_interest_paid", "total_amount_paid"}
        /\ RLt(total_monthly_payment, RequiredMinimum) => BudgetErrorReturned
        /\ remaining_cards # << >> => RunawayErrorReturned

\* the run was aborted at the cap after its periods were computed
C25_Witness ==
    /\ RunawayErrorReturned
    /\ schedule_len = MaxMonths
    /\ month_data.month = MaxMonths
    /\ LineCount = 2

\* the account at input position i owes, at a positive rate, interest that
\* its minimum payment does not exceed
Stuck(i) ==
    /\ RGt(cards[i].balance, Zero)
    /\ RGt(cards[i].monthly_interest_rate, Zero)
    /\ RLe(cards[i].minimum_payment,
           RMul(cards[i].balance, cards[i].monthly_interest_rate))

\* C26: with an extra budget of 0, an active account whose minimum_payment
\* is at most the interest on its balance, at a positive rate, keeps its
\* balance in every period and is never settled, and the call returns the
\* runaway error after 1000 periods.
C26_StuckAccount ==
    pc # "call" /\ ~BudgetErrorReturned /\ extra_payment = Zero =>
        /\ \A i \in 1..Len(cards) : Stuck(i) =>
            /\ \E k \in 1..Len(remaining_cards) :
                    /\ remaining_cards[k].idx = i
                    /\ remaining_cards[k].balance = cards[i].balance
            /\ Done => RunawayErrorReturned /\ schedule_len = MaxMonths
        /\ \A k \in 1..LineCount :
                /\ RGt(LineCard(k).monthly_interest_rate, Zero)
                /\ RLe(LineCard(k).minimum_payment, Lines[k].interest)
                => /\ Stuck(period_start[k].idx)
                   /\ Lines[k].balance_before = LineCard(k).balance
                   /\ Lines[k].balance_after = LineCard(k).balance

\* the runaway error is returned with one account settled and the other
\* one, whose minimum is below its interest, where it began
C26_Witness ==
    /\ RunawayErrorReturned
    /\ extra_payment = Zero
    /\ Cardinality(PositiveBalance) = 2
    /\ LineCount = 1
    /\ Stuck(period_start[1].idx)
    /\ RLt(LineCard(1).minimum_payment, Lines[1].interest)

\* C27: with an extra budget > 0, the first account of the working list
\* ends every period at balance 0, and leaves the list, or at least the
\* extra budget below the balance it began the period with; a call that
\* passed the budget check ends with every account settled or with the
\* runaway error at the cap.
C27_Progress ==
    /\ HasPeriod /\ RGt(extra_payment, Zero) =>
        /\ \/ Lines[1].balance_after = Zero
           \/ RLe(Lines[1].balance_after,
                  RSub(Lines[1].balance_before, extra_payment))
        /\ Lines[1].balance_after = Zero =>
                \A k \in 1..Len(remaining_cards) :
                    remaining_cards[k].idx # period_start[1].idx
    /\ Done /\ ~BudgetErrorReturned =>
        \/ Succeeded /\ remaining_cards = << >>
        \/ RunawayErrorReturned /\ schedule_len = MaxMonths

\* an account whose minimum does not cover its interest is the target in a
\* later period and is paid down by the extra budget
C27_Witness ==
    /\ month_data.month >= 2
    /\ RGt(extra_payment, Zero)
    /\ Uncovered(1)
    /\ RGt(Lines[1].balance_after, Zero)
    /\ Lines[1].balance_after = RSub(Lines[1].balance_before, extra_payment)

\* C28: whatever the names are, the payment line that the extra payment
\* increases is the line of the first account of the working list, and
\* the balance_after of the i-th line is the balance of the i-th entry of
\* balances_after and the working balance of that account when the period
\* ends.
C28_DuplicateNames ==
    HasPeriod =>
        /\ \A k \in 1..LineCount :
            /\ k # 1 => Lines[k].payment = MinimumDerived(k)
            /\ month_data.balances_after[k].card = Lines[k].card
            /\ month_data.balances_after[k].balance = Lines[k].balance_after
            /\ IF RGt(Lines[k].balance_after, Zero)
               THEN \E j \in 1..Len(remaining_cards) :
                        /\ remaining_cards[j].idx = period_start[k].idx
                        /\ remaining_cards[j].balance = Lines[k].balance_after
               ELSE \A j \in 1..Len(remaining_cards) :
                        remaining_cards[j].idx # period_start[k].idx
        /\ Len(month_data.balances_after) = LineCount
        /\ RSub(month_data.total_paid, SumMinimumDerived(LineCount)) =
                RSub(Lines[1].payment, MinimumDerived(1))

\* two accounts share a name, both have a line, and the first line carries
\* extra while the second account still owes
C28_Witness ==
    /\ HasPeriod
    /\ Len(cards) = 2
    /\ cards[1].name = cards[2].name
    /\ LineCount = 2
    /\ PaidOverMinimum(1)
    /\ RGt(Lines[2].balance_after, Zero)

\* every record of the input owes and has a minimum between 0 and its
\* balance and a rate that is not negative
Ingestable ==
    \A i \in 1..Len(cards) :
        /\ RGt(cards[i].balance, Zero)
        /\ RGe(cards[i].minimum_payment, Zero)
        /\ RLe(cards[i].minimum_payment, cards[i].balance)
        /\ RGe(cards[i].apr, Zero)

\* what the interest of the lines of the period exceeds their minimums by
Shortfall ==
    RSum([k \in 1..LineCount |->
            RMax(Zero, RSub(Lines[k].interest, LineCard(k).minimum_payment))])

\* C29: in a period of a successful schedule for an input that satisfies
\* the ingestion invariant, total_paid is at most the monthly budget.
C29_WithinBudget ==
    Succeeded /\ HasPeriod /\ Ingestable =>
        RLe(month_data.total_paid, total_monthly_payment)

\* what total_paid does stay below in every period: the budget plus the
\* amounts by which the interest of the period's lines exceeds their
\* minimums
WithinBudgetAndShortfall ==
    HasPeriod /\ Ingestable =>
        RLe(month_data.total_paid, RAdd(total_monthly_payment, Shortfall))

====
